---------------------------- MODULE Spec2Model ----------------------------
(***************************************************************************)
(* Exit Vector: the control-input normaliser (js/controls.js) and the maze *)
(* generator (js/maze.js) as state machines.                               *)
(*                                                                         *)
(* JavaScript numbers are modelled as exact rationals <<n, d>> (d > 0, in  *)
(* lowest terms), so that a division, a rescaling or a smoothing step is   *)
(* computed and never assumed to cancel.                                   *)
(***************************************************************************)
EXTENDS Integers, Sequences, FiniteSets, TLC

(***************************************************************************)
(* Rational arithmetic                                                     *)
(***************************************************************************)
Abs(i) == IF i < 0 THEN -i ELSE i

RECURSIVE GCD(_, _)
GCD(a, b) == IF b = 0 THEN a ELSE GCD(b, a % b)

Norm(n, d) ==
    LET s == IF d < 0 THEN -1 ELSE 1
        g == GCD(Abs(n), Abs(d))
    IN  <<(s * n) \div g, (s * d) \div g>>

R(i) == <<i, 1>>
Zero == <<0, 1>>
RAdd(a, b) == Norm(a[1] * b[2] + b[1] * a[2], a[2] * b[2])
RSub(a, b) == Norm(a[1] * b[2] - b[1] * a[2], a[2] * b[2])
RMul(a, b) == Norm(a[1] * b[1], a[2] * b[2])
RDiv(a, b) == Norm(a[1] * b[2], a[2] * b[1])
RNeg(a) == <<-a[1], a[2]>>
RAbs(a) == <<Abs(a[1]), a[2]>>
RLt(a, b) == a[1] * b[2] < b[1] * a[2]
RLe(a, b) == a[1] * b[2] <= b[1] * a[2]
RMin(a, b) == IF RLt(b, a) THEN b ELSE a
RMax(a, b) == IF RLt(a, b) THEN b ELSE a

Vec(x, y) == [x |-> x, y |-> y]
ZeroVec == Vec(Zero, Zero)

(***************************************************************************)
(* Configuration consumed by controls.js (CONTROL_METHOD, CONTROL_CONFIG). *)
(* The smoothing factor is a configured constant in (0,1]; it is the       *)
(* variable smoothing, fixed at construction.                              *)
(***************************************************************************)
TILT == "tilt"
TOUCH == "touch"
KEYBOARD == "keyboard"
Methods == {TILT, TOUCH, KEYBOARD}

tiltSensitivity == R(1)
maxTiltAngle == R(45)
deadZone == R(5)
joystickRadius == R(50)
driftThreshold == <<1, 1000>>

(***************************************************************************)
(* Bounds of the model                                                     *)
(***************************************************************************)
\* A session is explored for MaxSteps operations (calls by the host and
\* events of the platform) after construction.
MaxSteps == 5

\* The smoothing factors explored: below the drift threshold, inside (0,1),
\* and the upper end 1.
SmoothingFactors == {<<1, 2000>>, <<1, 2>>, <<1, 1>>}

\* Orientation samples: a missing angle (NULL), an angle inside the dead
\* zone and one beyond the maximum tilt.
\* An angle of a sample is <<a>> (a in degrees), or NULL when it is missing.
NULL == <<>>
Angles == {3, 90}
SampleAngles == {<<a>> : a \in Angles} \cup {NULL}

\* Touch points lie on one line of direction (3,4), so that every drag has
\* a rational length: 0, or 100 (beyond the joystick radius).
TouchPoints == {<<100, 100>>, <<160, 180>>}

DirectionKeys == {"left", "right", "up", "down"}

EventNames == {"deviceorientation", "keydown", "keyup", "touchstart",
               "touchmove", "touchend", "touchcancel", "resize",
               "orientationchange"}

VARIABLES
    \* ControlsManager fields
    gravity, rawGravity, activeMethod, hasDeviceOrientation, hasTouch,
    calibration, initialized, keys, touch, isLandscape,
    \* the platform: which APIs exist, which listeners are attached
    platform, listeners, smoothing,
    \* the last operation that ran, what it returned, the fields it found,
    \* and the operations so far
    lastCall, ret, before, steps,
    \* the angles <<gamma, beta>> of the orientation sample rawGravity was
    \* computed from, while nothing but calibrate() has run since that
    \* sample (NULL otherwise)
    sample,
    \* MazeGenerator fields; rng is the seed of its SeededRandom
    grid, cols, rows, cellSize, level, rng, exitZones, wallRects, entryX,
    entryY, width, height, exitColumns,
    \* the step of a running MazeGenerator.init that comes next ("idle"
    \* when none is running) and the frames of its running _carve calls
    phase, stack,
    \* the last query of the physics step: the method, its arguments and
    \* what it returned (NULL before the first query)
    query

controlVars == <<gravity, rawGravity, activeMethod, hasDeviceOrientation,
                 hasTouch, calibration, initialized, keys, touch,
                 isLandscape, platform, listeners, smoothing, lastCall, ret,
                 before, steps, sample>>

mazeVars == <<grid, cols, rows, cellSize, level, rng, exitZones, wallRects,
              entryX, entryY, width, height, exitColumns, phase, stack,
              query>>

vars == <<controlVars, mazeVars>>

(***************************************************************************)
(* The platform a ControlsManager is constructed on.                       *)
(*   orientationEvent : 'DeviceOrientationEvent' in window                 *)
(*   secureContext    : window.isSecureContext !== false                   *)
(*   permissionApi    : typeof DeviceOrientationEvent.requestPermission    *)
(*                      === 'function'                                     *)
(*   sensor           : the device has an orientation sensor, so that      *)
(*                      samples with both angles are delivered             *)
(*   ontouchstart     : 'ontouchstart' in window                           *)
(*   touchArea        : document.getElementById('touch-area') is non-null  *)
(***************************************************************************)
Platforms ==
    { p \in [orientationEvent : BOOLEAN, secureContext : BOOLEAN,
             permissionApi : BOOLEAN, sensor : BOOLEAN,
             ontouchstart : BOOLEAN, touchArea : BOOLEAN] :
        /\ p.permissionApi => p.orientationEvent
        /\ ~p.orientationEvent => (p.secureContext /\ ~p.sensor)
        \* the game's page holds the #touch-area element
        /\ p.touchArea }

NoKeys == [k \in DirectionKeys |-> FALSE]

\* constructor()
Constructed(p, s, landscape) ==
    /\ gravity = ZeroVec
    /\ rawGravity = ZeroVec
    /\ activeMethod = KEYBOARD
    /\ hasDeviceOrientation = FALSE
    /\ hasTouch = p.ontouchstart
    /\ calibration = ZeroVec
    /\ initialized = FALSE
    /\ keys = NoKeys
    /\ touch = [active |-> FALSE, startX |-> 0, startY |-> 0,
                currentX |-> 0, currentY |-> 0]
    /\ isLandscape = landscape
    /\ platform = p
    /\ listeners = {}
    /\ smoothing = s
    /\ lastCall = "constructor"
    /\ ret = "none"
    /\ before = [activeMethod |-> KEYBOARD, rawGravity |-> ZeroVec,
                 gravity |-> ZeroVec, calibration |-> ZeroVec,
                 listeners |-> {}]
    /\ steps = 0
    /\ sample = NULL

ControlsInit ==
    \E p \in Platforms, s \in SmoothingFactors, l \in BOOLEAN :
        Constructed(p, s, l)

\* the fields an operation finds when it starts
Fields ==
    [activeMethod |-> activeMethod, rawGravity |-> rawGravity,
     gravity |-> gravity, calibration |-> calibration,
     listeners |-> listeners]

\* One operation named op runs to completion and returns r ("none" for a
\* function that returns nothing); s is the orientation sample that
\* rawGravity holds the reading of when it has returned.
Ran(op, r, s) ==
    /\ steps < MaxSteps
    /\ steps' = steps + 1
    /\ lastCall' = op
    /\ ret' = r
    /\ before' = Fields
    /\ sample' = s
    /\ UNCHANGED mazeVars

Call(op, r) == Ran(op, r, NULL)

(***************************************************************************)
(* Initialisation and permission                                           *)
(***************************************************************************)
_checkDeviceOrientationSupport ==
    IF ~platform.orientationEvent THEN FALSE
    ELSE IF ~platform.secureContext THEN FALSE
    ELSE TRUE

KeyboardListeners == {"keydown", "keyup"}
TouchListeners ==
    IF platform.touchArea
    THEN {"touchstart", "touchmove", "touchend", "touchcancel"}
    ELSE {}
ResizeListeners == {"resize", "orientationchange"}

\* the method init() installs once the orientation support is known
InitialMethod(supported) ==
    IF supported
    THEN IF platform.permissionApi THEN KEYBOARD ELSE TILT
    ELSE IF hasTouch THEN TOUCH ELSE KEYBOARD

\* the fallback of requestPermission() after a denial or a rejection
FallbackMethod == IF hasTouch THEN TOUCH ELSE KEYBOARD

\* (a slip) init() attaches the orientation listener although the platform
\* asks for a grant first
InitListeners_Eager(supported) ==
    KeyboardListeners
      \cup (IF hasTouch THEN TouchListeners ELSE {})
      \cup ResizeListeners
      \cup (IF supported THEN {"deviceorientation"} ELSE {})

\* the listeners init() attaches
InitListeners(supported) ==
    KeyboardListeners
      \cup (IF hasTouch THEN TouchListeners ELSE {})
      \cup ResizeListeners
      \cup (IF supported /\ ~platform.permissionApi
            THEN {"deviceorientation"} ELSE {})

\* (a slip) init() does not look at this.initialized
init_Unguarded ==
    /\ Call("init", InitialMethod(_checkDeviceOrientationSupport))
    /\ LET supported == _checkDeviceOrientationSupport
       IN  /\ listeners' = listeners \cup InitListeners(supported)
           /\ hasDeviceOrientation' = supported
           /\ activeMethod' = InitialMethod(supported)
           /\ initialized' = TRUE
    /\ UNCHANGED <<gravity, rawGravity, hasTouch, calibration, keys, touch,
                   isLandscape, platform, smoothing>>

init ==
    /\ Call("init", IF initialized THEN activeMethod
                    ELSE InitialMethod(_checkDeviceOrientationSupport))
    /\ IF initialized
       THEN UNCHANGED <<activeMethod, hasDeviceOrientation, initialized,
                        listeners>>
       ELSE LET supported == _checkDeviceOrientationSupport
            IN  /\ listeners' = listeners \cup InitListeners(supported)
                /\ hasDeviceOrientation' = supported
                /\ activeMethod' = InitialMethod(supported)
                /\ initialized' = TRUE
    /\ UNCHANGED <<gravity, rawGravity, hasTouch, calibration, keys, touch,
                   isLandscape, platform, smoothing>>

\* requestPermission(): outcome is what the platform's permission prompt
\* resolves to.  Nothing is read or written before the await, so the call
\* and its continuation are one step, taken when the prompt resolves.
PermissionOutcomes == {"granted", "denied", "rejected"}

\* what requestPermission() returns; it throws where DeviceOrientationEvent
\* is not defined
PermissionResult(outcome) ==
    IF ~platform.orientationEvent THEN "throws"
    ELSE IF ~platform.permissionApi THEN "true"
    ELSE IF outcome = "granted" THEN "true"
    ELSE "false"

\* the listeners requestPermission() leaves attached after a grant
GrantListeners == listeners \cup {"deviceorientation"}

requestPermission(outcome) ==
    /\ Call("requestPermission", PermissionResult(outcome))
    /\ IF ~platform.orientationEvent \/ ~platform.permissionApi
       THEN UNCHANGED <<activeMethod, listeners>>
       ELSE IF outcome = "granted"
       THEN /\ listeners' = GrantListeners
            /\ activeMethod' = TILT
       ELSE /\ activeMethod' = FallbackMethod
            /\ UNCHANGED listeners
    /\ UNCHANGED <<gravity, rawGravity, hasDeviceOrientation, hasTouch,
                   calibration, initialized, keys, touch, isLandscape,
                   platform, smoothing>>

(***************************************************************************)
(* Device orientation                                                      *)
(***************************************************************************)
\* (a slip) the lower bound is not applied
Clamp_UpperOnly(v, lo, hi) == RMin(hi, v)

Clamp(v, lo, hi) == RMax(lo, RMin(hi, v))

DeadZoned(t) == IF RLt(RAbs(t), deadZone) THEN Zero ELSE t

\* one axis of the raw vector from a calibrated tilt angle
TiltToRaw(t) ==
    RMul(RDiv(Clamp(DeadZoned(t), RNeg(maxTiltAngle), maxTiltAngle),
              maxTiltAngle),
         tiltSensitivity)

\* an angle in arithmetic: a missing angle (null) converts to 0
Angle(a) == IF a = NULL THEN 0 ELSE a[1]

\* (a slip) only gamma is checked
SampleValid_GammaOnly(gamma, beta) == ~(gamma = NULL)

\* whether a sample carries both angles
SampleValid(gamma, beta) == ~(gamma = NULL \/ beta = NULL)

_handleDeviceOrientation(gamma, beta) ==
    /\ "deviceorientation" \in listeners
    \* a device without a sensor delivers no sample with both angles
    /\ (gamma # NULL /\ beta # NULL) => platform.sensor
    /\ IF gamma = NULL \/ beta = NULL
       THEN Call("deviceorientation(null)", "none")
       ELSE Ran("deviceorientation", "none", <<Angle(gamma), Angle(beta)>>)
    /\ IF ~SampleValid(gamma, beta)
       THEN UNCHANGED <<activeMethod, rawGravity>>
       ELSE LET tiltX == IF isLandscape THEN R(Angle(beta))
                                        ELSE R(Angle(gamma))
                tiltY == IF isLandscape THEN RNeg(R(Angle(gamma)))
                                        ELSE R(Angle(beta))
            IN  /\ activeMethod' = TILT
                /\ rawGravity' =
                     Vec(TiltToRaw(RSub(tiltX, calibration.x)),
                         TiltToRaw(RSub(tiltY, calibration.y)))
    /\ UNCHANGED <<gravity, hasDeviceOrientation, hasTouch, calibration,
                   initialized, keys, touch, isLandscape, platform,
                   listeners, smoothing>>

calibrate ==
    /\ Ran("calibrate", "none", sample)
    /\ calibration' =
         Vec(RMul(RDiv(rawGravity.x, tiltSensitivity), maxTiltAngle),
             RMul(RDiv(rawGravity.y, tiltSensitivity), maxTiltAngle))
    /\ UNCHANGED <<gravity, rawGravity, activeMethod, hasDeviceOrientation,
                   hasTouch, initialized, keys, touch, isLandscape, platform,
                   listeners, smoothing>>

(***************************************************************************)
(* Keyboard                                                                *)
(***************************************************************************)
\* (a slip) a keydown takes the source from Tilt as well
KeyDownMethod_Always(method) == KEYBOARD

\* the method after a handled keydown
KeyDownMethod(method) ==
    IF method # KEYBOARD /\ method # TILT THEN KEYBOARD ELSE method

_handleKeyDown(k) ==
    /\ "keydown" \in listeners
    /\ Call("keydown", "none")
    /\ keys' = [keys EXCEPT ![k] = TRUE]
    /\ activeMethod' = KeyDownMethod(activeMethod)
    /\ UNCHANGED <<gravity, rawGravity, hasDeviceOrientation, hasTouch,
                   calibration, initialized, touch, isLandscape, platform,
                   listeners, smoothing>>

_handleKeyUp(k) ==
    /\ "keyup" \in listeners
    /\ Call("keyup", "none")
    /\ keys' = [keys EXCEPT ![k] = FALSE]
    /\ UNCHANGED <<gravity, rawGravity, activeMethod, hasDeviceOrientation,
                   hasTouch, calibration, initialized, touch, isLandscape,
                   platform, listeners, smoothing>>

(***************************************************************************)
(* Touch joystick                                                          *)
(***************************************************************************)
\* Math.sqrt of a perfect square
Sqrt(n) == CHOOSE r \in 0..n : r * r = n

\* the method after a touch-start
TouchStartMethod(method) == IF method # TILT THEN TOUCH ELSE method

_handleTouchStart(p) ==
    /\ "touchstart" \in listeners
    /\ Call("touchstart", "none")
    /\ touch' = [active |-> TRUE, startX |-> p[1], startY |-> p[2],
                 currentX |-> p[1], currentY |-> p[2]]
    /\ activeMethod' = TouchStartMethod(activeMethod)
    /\ UNCHANGED <<gravity, rawGravity, hasDeviceOrientation, hasTouch,
                   calibration, initialized, keys, isLandscape, platform,
                   listeners, smoothing>>

\* (a slip) the drag is not clamped to the joystick radius
TouchToRaw_Unclamped(dx, dy) ==
    Vec(RMul(RDiv(R(dx), joystickRadius), tiltSensitivity),
        RMul(RDiv(R(dy), joystickRadius), tiltSensitivity))

\* the raw vector of a drag (dx, dy): clamped to the joystick radius along
\* its own direction (cos and sin of atan2(dy, dx)), then rescaled
TouchToRaw(dx, dy) ==
    LET distance == Sqrt(dx * dx + dy * dy)
        clampedDistance == RMin(R(distance), joystickRadius)
        cos == IF distance = 0 THEN R(1) ELSE Norm(dx, distance)
        sin == IF distance = 0 THEN Zero ELSE Norm(dy, distance)
        clampedX == RMul(cos, clampedDistance)
        clampedY == RMul(sin, clampedDistance)
    IN  Vec(RMul(RDiv(clampedX, joystickRadius), tiltSensitivity),
            RMul(RDiv(clampedY, joystickRadius), tiltSensitivity))

\* (a slip) a touch-move writes the raw vector whatever the source
TouchWrites_Always(method) == TRUE

\* whether a touch-move writes the raw vector
TouchWrites(method) == method # TILT

_handleTouchMove(p) ==
    /\ "touchmove" \in listeners
    /\ Call("touchmove", "none")
    /\ IF ~touch.active
       THEN UNCHANGED <<touch, rawGravity>>
       ELSE /\ touch' = [touch EXCEPT !.currentX = p[1], !.currentY = p[2]]
            /\ rawGravity' =
                 IF TouchWrites(activeMethod)
                 THEN TouchToRaw(p[1] - touch.startX, p[2] - touch.startY)
                 ELSE rawGravity
    /\ UNCHANGED <<gravity, activeMethod, hasDeviceOrientation, hasTouch,
                   calibration, initialized, keys, isLandscape, platform,
                   listeners, smoothing>>

\* (a slip) the touch-end zeroes the smoothed vector, not the raw one
_handleTouchEnd_ZeroesGravity ==
    /\ ("touchend" \in listeners \/ "touchcancel" \in listeners)
    /\ Call("touchend", "none")
    /\ touch' = [touch EXCEPT !.active = FALSE]
    /\ gravity' = IF activeMethod = TOUCH THEN ZeroVec ELSE gravity
    /\ UNCHANGED <<rawGravity, activeMethod, hasDeviceOrientation, hasTouch,
                   calibration, initialized, keys, isLandscape, platform,
                   listeners, smoothing>>

\* touchend and touchcancel share the handler
_handleTouchEnd ==
    /\ ("touchend" \in listeners \/ "touchcancel" \in listeners)
    /\ Call("touchend", "none")
    /\ touch' = [touch EXCEPT !.active = FALSE]
    /\ rawGravity' = IF activeMethod = TOUCH THEN ZeroVec ELSE rawGravity
    /\ UNCHANGED <<gravity, activeMethod, hasDeviceOrientation, hasTouch,
                   calibration, initialized, keys, isLandscape, platform,
                   listeners, smoothing>>

_handleResize(landscape) ==
    /\ ("resize" \in listeners \/ "orientationchange" \in listeners)
    /\ Call("resize", "none")
    /\ isLandscape' = landscape
    /\ UNCHANGED <<gravity, rawGravity, activeMethod, hasDeviceOrientation,
                   hasTouch, calibration, initialized, keys, touch, platform,
                   listeners, smoothing>>

(***************************************************************************)
(* The per-frame update                                                    *)
(***************************************************************************)
keyboardActive == keys.left \/ keys.right \/ keys.up \/ keys.down

B(b) == IF b THEN tiltSensitivity ELSE Zero

\* (a slip) of two opposing keys the second one read wins
KeyboardRaw_LastWins ==
    Vec(IF keys.right THEN tiltSensitivity ELSE RNeg(B(keys.left)),
        IF keys.down THEN tiltSensitivity ELSE RNeg(B(keys.up)))

\* the raw vector of the held keys
KeyboardRaw ==
    Vec(RSub(B(keys.right), B(keys.left)), RSub(B(keys.down), B(keys.up)))

\* (a slip) update() yields to Tilt, as the keydown handler does
UpdateMethod_KeepsTilt(method) ==
    IF keyboardActive /\ method # TILT THEN KEYBOARD ELSE method

\* the method update() leaves active
UpdateMethod(method) == IF keyboardActive THEN KEYBOARD ELSE method

\* the raw vector update() smooths towards
UpdateRaw ==
    IF keyboardActive THEN KeyboardRaw
    ELSE IF activeMethod = KEYBOARD THEN ZeroVec
    ELSE rawGravity

\* the threshold that prevents drift
Snap(g) == IF RLt(RAbs(g), driftThreshold) THEN Zero ELSE g

\* (a slip) the raw axis is added in, not approached
Smooth_Accumulates(g, raw) == Snap(RAdd(g, RMul(raw, smoothing)))

\* (a slip) with a raw vector at rest the axis is held, not smoothed
Smooth_Held(g, raw) ==
    IF raw = Zero THEN g
    ELSE Snap(RAdd(g, RMul(RSub(raw, g), smoothing)))

\* one axis of the smoothing step
Smooth(g, raw) == Snap(RAdd(g, RMul(RSub(raw, g), smoothing)))

\* what update() does to the fields
UpdateEffect ==
    /\ activeMethod' = UpdateMethod(activeMethod)
    /\ rawGravity' = UpdateRaw
    /\ gravity' = Vec(Smooth(gravity.x, rawGravity'.x),
                      Smooth(gravity.y, rawGravity'.y))
    /\ UNCHANGED <<hasDeviceOrientation, hasTouch, calibration, initialized,
                   keys, touch, isLandscape, platform, listeners, smoothing>>

update == Call("update", "none") /\ UpdateEffect

\* update() as the game loop calls it, frame after frame.  A frame whose
\* raw vector is at rest at (0,0) is not counted among the MaxSteps
\* operations: gravity takes finitely many values on its way to (0,0).
frame ==
    /\ UpdateRaw # ZeroVec => steps < MaxSteps
    /\ steps' = IF UpdateRaw = ZeroVec THEN steps ELSE steps + 1
    /\ lastCall' = "update"
    /\ ret' = "none"
    /\ before' = Fields
    /\ sample' = NULL
    /\ UNCHANGED mazeVars
    /\ UpdateEffect

getGravity == gravity
getActiveMethod == activeMethod

reset ==
    /\ Call("reset", "none")
    /\ gravity' = ZeroVec
    /\ rawGravity' = ZeroVec
    /\ keys' = NoKeys
    /\ touch' = [touch EXCEPT !.active = FALSE]
    /\ UNCHANGED <<activeMethod, hasDeviceOrientation, hasTouch, calibration,
                   initialized, isLandscape, platform, listeners, smoothing>>

destroy ==
    /\ Call("destroy", "none")
    /\ listeners' = {}
    /\ UNCHANGED <<gravity, rawGravity, activeMethod, hasDeviceOrientation,
                   hasTouch, calibration, initialized, keys, touch,
                   isLandscape, platform, smoothing>>

(***************************************************************************)
(* maze.js: cell types and directions                                      *)
(***************************************************************************)
WALL == 0
PATH == 1
ENTRY == 2
EXIT == 3

DIRECTIONS ==
    << [dx |-> 0, dy |-> -1, name |-> "up"],
       [dx |-> 1, dy |-> 0, name |-> "right"],
       [dx |-> 0, dy |-> 1, name |-> "down"],
       [dx |-> -1, dy |-> 0, name |-> "left"] >>

\* EXIT_CONFIG.zoneHeight, the height of the strip of exit zones
zoneHeight == 60

(***************************************************************************)
(* SeededRandom.  The seed is a JavaScript number: an integer held in a    *)
(* double.  The wall-clock seed and the product seed * 1103515245 do not   *)
(* fit a machine integer, so a seed is a sequence of limbs in base 2^14,   *)
(* least significant first, without leading zero limbs; products and sums  *)
(* are rounded to 53 significant bits as a double rounds them.             *)
(***************************************************************************)
Base == 16384

RECURSIVE Big(_)
Big(n) == IF n = 0 THEN <<>> ELSE <<n % Base>> \o Big(n \div Base)

RECURSIVE Trim(_)
Trim(b) ==
    IF b = <<>> THEN b
    ELSE IF b[Len(b)] = 0 THEN Trim(SubSeq(b, 1, Len(b) - 1)) ELSE b

Limb(b, i) == IF i <= Len(b) THEN b[i] ELSE 0

RECURSIVE AddLimbs(_, _, _, _)
AddLimbs(a, b, i, carry) ==
    IF i > Len(a) /\ i > Len(b)
    THEN (IF carry = 0 THEN <<>> ELSE <<carry>>)
    ELSE <<(Limb(a, i) + Limb(b, i) + carry) % Base>>
         \o AddLimbs(a, b, i + 1, (Limb(a, i) + Limb(b, i) + carry) \div Base)

BigAdd(a, b) == Trim(AddLimbs(a, b, 1, 0))

RECURSIVE MulLimb(_, _, _, _)
MulLimb(a, d, i, carry) ==
    IF i > Len(a)
    THEN (IF carry = 0 THEN <<>> ELSE <<carry>>)
    ELSE <<(a[i] * d + carry) % Base>>
         \o MulLimb(a, d, i + 1, (a[i] * d + carry) \div Base)

RECURSIVE MulFrom(_, _, _)
MulFrom(a, b, i) ==
    IF i > Len(a) THEN <<>>
    ELSE BigAdd(MulLimb(b, a[i], 1, 0), <<0>> \o MulFrom(a, b, i + 1))

BigMul(a, b) == Trim(MulFrom(a, b, 1))

\* the number of bits of a limb
BitLen(x) == CHOOSE k \in 0..14 : x < 2^k /\ (k = 0 \/ 2^(k - 1) <= x)

\* An integer as the nearest double, ties to even.  The numbers rounded
\* here are below 2^73, so the bits dropped lie in the two lowest limbs.
Round53(b) ==
    LET bits == IF b = <<>> THEN 0
                ELSE 14 * (Len(b) - 1) + BitLen(b[Len(b)])
    IN  IF bits <= 53 THEN b
        ELSE LET unit == 2^(bits - 53)
                 low == b[1] + Base * b[2]
                 rem == low % unit
                 q == low \div unit
                 up == 2 * rem > unit \/ (2 * rem = unit /\ q % 2 = 1)
                 floor == [b EXCEPT ![1] = (low - rem) % Base,
                                    ![2] = (low - rem) \div Base]
             IN  IF up THEN BigAdd(floor, Big(unit)) ELSE floor

\* b mod 2^31 and b div 2^31 (b < 2^56) as machine integers
Low31(b) == Limb(b, 1) + Base * Limb(b, 2) + Base * Base * (Limb(b, 3) % 8)
High31(b) == Limb(b, 3) \div 8 + 2048 * Limb(b, 4)

\* (a slip) the product is taken in whole numbers, without the rounding of
\* a double
next_Exact(seed) ==
    Big(Low31(BigAdd(BigMul(seed, Big(1103515245)), Big(12345))))

\* next(): the seed it leaves, (seed * 1103515245 + 12345) & 0x7fffffff.
\* The value it returns is that seed / 0x7fffffff.
next(seed) ==
    Big(Low31(Round53(BigAdd(Round53(BigMul(seed, Big(1103515245))),
                             Big(12345)))))

\* nextInt(min, max), drawn from seed: floor(next() * (max - min)) + min.
\* With s the seed next() leaves and n = max - min, the floor is that of
\* s * n / (2^31 - 1): 2^31 - 1 is prime, so for 0 < s < 2^31 - 1 the
\* quotient is at least 1 / (2^31 - 1) away from an integer and the two
\* roundings of the doubles cannot cross one; s = 0 gives 0 and
\* s = 2^31 - 1 gives n.  s * n = hi * 2^31 + lo = hi * (2^31 - 1) + hi + lo.
nextInt(seed, min, max) ==
    LET t == MulLimb(next(seed), max - min, 1, 0)
    IN  High31(t) + (IF Low31(t) >= 2147483647 - High31(t) THEN 1 ELSE 0)
        + min

\* an array element that was never written
Undefined == [undefined |-> TRUE]

\* (a slip) result[i] = result[j], without the exchange
Swap_Overwrite(result, i, j) ==
    IF j < Len(result)
    THEN [result EXCEPT ![i + 1] = result[j + 1]]
    ELSE [result EXCEPT ![i + 1] = [undefined |-> TRUE]]

\* [result[i], result[j]] = [result[j], result[i]] on a 0-based array; an
\* index j = result.length reads undefined and its write extends the array
Swap(result, i, j) ==
    IF j < Len(result)
    THEN [result EXCEPT ![i + 1] = result[j + 1], ![j + 1] = result[i + 1]]
    ELSE [result EXCEPT ![i + 1] = Undefined] \o <<result[i + 1]>>

RECURSIVE ShuffleFrom(_, _, _)
ShuffleFrom(result, seed, i) ==
    IF i <= 0 THEN [result |-> result, seed |-> seed]
    ELSE ShuffleFrom(Swap(result, i, nextInt(seed, 0, i + 1)),
                     next(seed), i - 1)

\* shuffle(array): the shuffled copy and the seed it leaves
shuffle(seed, array) == ShuffleFrom(array, seed, Len(array) - 1)

(***************************************************************************)
(* Inputs of MazeGenerator.init                                            *)
(***************************************************************************)
\* the levels init documents, 1..MaxLevel, and level 0
MaxLevel == 10
Levels == 0..MaxLevel

\* canvasWidth, canvasHeight: a phone in portrait, where the cell size is
\* held at its floor of 20, and a desktop window
Canvases == {<<320, 480>>, <<800, 900>>}

\* Date.now() reads Now(k), k milliseconds after construction
MaxClock == 4
Clocks == 0..MaxClock
Now(k) == BigAdd(BigMul(Big(1793772000), Big(1000)), Big(k))

(***************************************************************************)
(* MazeGenerator                                                           *)
(***************************************************************************)
\* new MazeGenerator(), with this.rng = new SeededRandom(seed)
MazeConstructedWith(seed) ==
    /\ grid = <<>>
    /\ cols = 15
    /\ rows = 15
    /\ cellSize = 30
    /\ level = 1
    /\ rng = seed
    /\ exitZones = <<>>
    /\ wallRects = <<>>
    /\ entryX = Zero
    /\ entryY = Zero
    /\ width = 0
    /\ height = 0
    /\ exitColumns = <<>>
    /\ phase = "idle"
    /\ stack = <<>>
    /\ query = NULL

\* new MazeGenerator(): the seed defaults to Date.now()
MazeConstructed == MazeConstructedWith(Now(0))

\* (a slip) the steps of the level are not doubled
Cols_SingleStep(lv) ==
    LET c == 11 + (lv \div 2) IN IF c % 2 = 0 THEN c + 1 ELSE c

Cols(lv) ==
    LET c == 11 + (lv \div 2) * 2 IN IF c % 2 = 0 THEN c + 1 ELSE c

Rows(lv) ==
    LET r == 13 + (lv \div 3) * 2 IN IF r % 2 = 0 THEN r + 1 ELSE r

Min(a, b) == IF b < a THEN b ELSE a
Max(a, b) == IF a < b THEN b ELSE a

\* the floor of the smaller quotient is the smaller of the floors
CellSize(lv, canvasWidth, canvasHeight) ==
    Max(Min((canvasWidth - 40) \div Cols(lv),
            (canvasHeight - zoneHeight - 40) \div Rows(lv)), 20)

\* grid[y][x], rows and columns counted from 0
WallGrid(c, r) == [y \in 0..(r - 1) |-> [x \in 0..(c - 1) |-> WALL]]
Put(g, x, y, v) == [g EXCEPT ![y][x] = v]

\* the entry of _carve(x, y): the cell becomes a path and the directions
\* are shuffled; the frame holds the position in the loop over them
Frame(x, y, directions) ==
    [x |-> x, y |-> y, directions |-> directions, i |-> 1]

\* (a slip) the start column is taken as it is
actualStartX_AsIs(startX) == startX

\* const actualStartX = startX % 2 === 0 ? startX + 1 : startX
actualStartX(startX) == IF startX % 2 = 0 THEN startX + 1 ELSE startX

\* init(level, canvasWidth, canvasHeight) up to the first call of _carve,
\* with Date.now() reading Now(k)
StartInit(lv, canvasWidth, canvasHeight, k) ==
    /\ level' = lv
    /\ cols' = Cols(lv)
    /\ rows' = Rows(lv)
    /\ cellSize' = CellSize(lv, canvasWidth, canvasHeight)
    /\ width' = Cols(lv) * CellSize(lv, canvasWidth, canvasHeight)
    /\ height' = Rows(lv) * CellSize(lv, canvasWidth, canvasHeight)
    /\ LET startX == Cols(lv) \div 2
           startY == 1
           sh == shuffle(Now(k), DIRECTIONS)
       IN  /\ grid' = Put(WallGrid(Cols(lv), Rows(lv)),
                          actualStartX(startX), startY, PATH)
           /\ rng' = sh.seed
           /\ stack' = <<Frame(actualStartX(startX), startY, sh.result)>>
    /\ phase' = "_carve"
    /\ UNCHANGED <<exitZones, wallRects, entryX, entryY, exitColumns>>

\* the first init of a generator
MazeGenerator_init(lv, canvasWidth, canvasHeight, k) ==
    /\ phase = "idle"
    /\ grid = <<>>
    /\ StartInit(lv, canvasWidth, canvasHeight, k)
    /\ UNCHANGED <<controlVars, query>>

\* init for a next level, on a generator that holds a maze; it counts as an
\* operation of the session, and the query of the maze before is dropped
MazeGenerator_initAgain(lv, canvasWidth, canvasHeight, k) ==
    /\ phase = "idle"
    /\ grid # <<>>
    /\ steps < MaxSteps
    /\ steps' = steps + 1
    /\ query' = NULL
    /\ StartInit(lv, canvasWidth, canvasHeight, k)
    /\ UNCHANGED <<gravity, rawGravity, activeMethod, hasDeviceOrientation,
                   hasTouch, calibration, initialized, keys, touch,
                   isLandscape, platform, listeners, smoothing, lastCall,
                   ret, before, sample>>

\* One turn of the loop of the innermost running _carve: the direction is
\* taken (the wall between is carved and _carve is called on the cell two
\* steps away), or it is skipped, or the loop is over and _carve returns.
_carve ==
    /\ phase = "_carve"
    /\ LET f == stack[Len(stack)]
           top == Len(stack)
       IN  IF f.i > Len(f.directions)
           THEN /\ stack' = SubSeq(stack, 1, top - 1)
                /\ phase' = IF top = 1 THEN "_createEntryAndExits"
                            ELSE "_carve"
                /\ UNCHANGED <<grid, rng>>
           ELSE LET dir == f.directions[f.i]
                    nx == f.x + dir.dx * 2
                    ny == f.y + dir.dy * 2
                    advanced == [stack EXCEPT ![top].i = f.i + 1]
                    sh == shuffle(rng, DIRECTIONS)
                IN  /\ phase' = "_carve"
                    /\ IF /\ nx > 0 /\ nx < cols - 1
                          /\ ny > 0 /\ ny < rows - 1
                          /\ grid[ny][nx] = WALL
                       THEN /\ grid' = Put(Put(grid, f.x + dir.dx,
                                               f.y + dir.dy, PATH),
                                           nx, ny, PATH)
                            /\ rng' = sh.seed
                            /\ stack' = Append(advanced,
                                               Frame(nx, ny, sh.result))
                       ELSE /\ stack' = advanced
                            /\ UNCHANGED <<grid, rng>>
    /\ UNCHANGED <<level, cols, rows, cellSize, width, height, exitZones,
                   wallRects, entryX, entryY, exitColumns>>
    /\ UNCHANGED <<controlVars, query>>

\* exitPositions 0.1, 0.3, 0.5, 0.7, 0.9 in tenths.  cols is odd, so
\* pos * cols is never within 1/10 of an integer and
\* floor(pos * cols) = floor(tenths * cols / 10).
exitPositions == <<1, 3, 5, 7, 9>>
TargetCol(tenths) == (tenths * cols) \div 10

\* (a slip) minDist is never lowered, so the last path cell of the row wins
BestCol_LastPath(g, targetCol) ==
    LET paths == {x \in 1..(cols - 2) : g[rows - 2][x] = PATH}
    IN  IF paths = {} THEN targetCol
        ELSE CHOOSE x \in paths : \A z \in paths : z <= x

\* the column of the path cell of row rows - 2 nearest to targetCol, the
\* leftmost of two at the same distance; targetCol when the row has none
BestCol(g, targetCol) ==
    LET paths == {x \in 1..(cols - 2) : g[rows - 2][x] = PATH}
    IN  IF paths = {} THEN targetCol
        ELSE CHOOSE x \in paths :
                 \A z \in paths :
                     \/ Abs(x - targetCol) < Abs(z - targetCol)
                     \/ Abs(x - targetCol) = Abs(z - targetCol) /\ x <= z

RECURSIVE OpenExits(_, _)
OpenExits(g, i) ==
    IF i > Len(exitPositions) THEN [grid |-> g, exitColumns |-> <<>>]
    ELSE LET bestCol == BestCol(g, TargetCol(exitPositions[i]))
             rest == OpenExits(Put(g, bestCol, rows - 1, EXIT), i + 1)
         IN  [grid |-> rest.grid,
              exitColumns |-> <<bestCol>> \o rest.exitColumns]

\* from row y upward, cells of column col become paths until a path is met
RECURSIVE CarveUp(_, _, _)
CarveUp(g, col, y) ==
    IF y < 0 THEN g
    ELSE IF g[y][col] = PATH THEN g
    ELSE CarveUp(Put(g, col, y, PATH), col, y - 1)

RECURSIVE ConnectExits(_, _, _)
ConnectExits(g, columns, i) ==
    IF i > Len(columns) THEN g
    ELSE ConnectExits(IF g[rows - 2][columns[i]] = WALL
                      THEN CarveUp(g, columns[i], rows - 2)
                      ELSE g,
                      columns, i + 1)

\* (a slip) the entry is opened in row 0 only, and the cell below it is
\* left as the carving left it
OpenEntry_Row0Only(g) == Put(g, cols \div 2, 0, ENTRY)

\* the entry at the top centre and the path cell below it
OpenEntry(g) ==
    LET centerX == cols \div 2
    IN  Put(Put(g, centerX, 0, ENTRY), centerX, 1, PATH)

_createEntryAndExits ==
    /\ phase = "_createEntryAndExits"
    /\ LET opened == OpenExits(OpenEntry(grid), 1)
       IN  /\ exitColumns' = opened.exitColumns
           /\ grid' = ConnectExits(opened.grid, opened.exitColumns, 1)
    /\ phase' = "_buildExitZones"
    /\ UNCHANGED <<level, cols, rows, cellSize, width, height, rng,
                   exitZones, wallRects, entryX, entryY, stack>>
    /\ UNCHANGED <<controlVars, query>>

exitScores ==
    << [score |-> 500, label |-> "500"], [score |-> 100, label |-> "100"],
       [score |-> 1000, label |-> "1000"], [score |-> 0, label |-> "0"],
       [score |-> 250, label |-> "250"] >>

\* (a slip) the width of a zone is cut to whole pixels
zoneWidth_Floored == R(width \div 5)

\* const zoneWidth = this.width / 5
zoneWidth == Norm(width, 5)

\* zone i (from 0) is exitZones[i + 1]; exitColumns[i] || fallback takes
\* the fallback for a column 0 and for a missing entry
_buildExitZones ==
    /\ phase = "_buildExitZones"
    /\ exitZones' =
               [n \in 1..5 |->
                   [x |-> RMul(R(n - 1), zoneWidth),
                    y |-> height,
                    width |-> zoneWidth,
                    height |-> zoneHeight,
                    score |-> exitScores[n].score,
                    label |-> exitScores[n].label,
                    column |-> IF n <= Len(exitColumns)
                                  /\ exitColumns[n] # 0
                               THEN exitColumns[n]
                               ELSE ((2 * n - 1) * cols) \div 10]]
    /\ phase' = "_buildWallRects"
    /\ UNCHANGED <<grid, level, cols, rows, cellSize, width, height, rng,
                   wallRects, entryX, entryY, exitColumns, stack>>
    /\ UNCHANGED <<controlVars, query>>

WallRect(x, y) ==
    [x |-> x * cellSize, y |-> y * cellSize, width |-> cellSize,
     height |-> cellSize, isWall |-> TRUE]

\* the rectangles of the wall cells of row y, by increasing column
RowRects(y) ==
    LET walls == SelectSeq([n \in 1..cols |-> n - 1],
                           LAMBDA x : grid[y][x] = WALL)
    IN  [n \in 1..Len(walls) |-> WallRect(walls[n], y)]

RECURSIVE RectsFrom(_)
RectsFrom(y) == IF y >= rows THEN <<>> ELSE RowRects(y) \o RectsFrom(y + 1)

\* (a slip) the list of the level before is not emptied
_buildWallRects_Appends ==
    /\ phase = "_buildWallRects"
    /\ wallRects' = wallRects \o RectsFrom(0)
    /\ entryX' = Norm(width, 2)
    /\ entryY' = RMul(R(cellSize), <<3, 2>>)
    /\ phase' = "idle"
    /\ UNCHANGED <<grid, level, cols, rows, cellSize, width, height, rng,
                   exitZones, exitColumns, stack>>
    /\ UNCHANGED <<controlVars, query>>

\* _buildWallRects() and the end of init(): the entry position
_buildWallRects ==
    /\ phase = "_buildWallRects"
    /\ wallRects' = RectsFrom(0)
    /\ entryX' = Norm(width, 2)
    /\ entryY' = RMul(R(cellSize), <<3, 2>>)
    /\ phase' = "idle"
    /\ UNCHANGED <<grid, level, cols, rows, cellSize, width, height, rng,
                   exitZones, exitColumns, stack>>
    /\ UNCHANGED <<controlVars, query>>

(***************************************************************************)
(* A session of the controls, beside a maze generator that was constructed *)
(***************************************************************************)

(***************************************************************************)
(* Queries of the physics step on the maze that init has built             *)
(***************************************************************************)
\* (a slip) a zone does not hold its right edge
InZone_HalfOpen(x, zone) ==
    RLe(zone.x, x) /\ RLt(x, RAdd(zone.x, zone.width))

\* x >= zone.x && x <= zone.x + zone.width
InZone(x, zone) == RLe(zone.x, x) /\ RLe(x, RAdd(zone.x, zone.width))

\* the loop of getExitZoneForX from zone n on
RECURSIVE ZoneFrom(_, _)
ZoneFrom(x, n) ==
    IF n > Len(exitZones) THEN NULL
    ELSE IF InZone(x, exitZones[n]) THEN exitZones[n]
    ELSE ZoneFrom(x, n + 1)

\* getExitZoneForX(x): the zone, or NULL for null
getExitZoneForX(x) == ZoneFrom(x, 1)

\* The x positions asked about: the tenths of the width (the edges and the
\* middles of the zones), half a pixel and a pixel beyond both ends, and
\* the first and the last pixel of every exit opening.
PixelXs ==
    {Norm(k * width, 10) : k \in 0..10}
        \cup {R(-1), Norm(-1, 2), Norm(2 * width + 1, 2), R(width + 1)}
        \cup {R(exitColumns[n] * cellSize) : n \in DOMAIN exitColumns}
        \cup {R((exitColumns[n] + 1) * cellSize - 1) : n \in DOMAIN exitColumns}

\* The queries are pure: each maze is explored with one query.
call_getExitZoneForX(x) ==
    /\ phase = "idle"
    /\ grid # <<>>
    /\ query = NULL
    /\ query' = [fn |-> "getExitZoneForX", args |-> <<x>>,
                 result |-> getExitZoneForX(x)]
    /\ UNCHANGED <<grid, level, cols, rows, cellSize, width, height, rng,
                   exitZones, wallRects, entryX, entryY, exitColumns, phase,
                   stack>>
    /\ UNCHANGED controlVars

\* Math.floor of the fraction q
Floor(q) == q[1] \div q[2]

\* (a slip) the top row counts as outside
OutOfGrid_TopRow(col, row) ==
    col < 0 \/ col >= cols \/ row <= 0 \/ row >= rows

\* col < 0 || col >= this.cols || row < 0 || row >= this.rows
OutOfGrid(col, row) == col < 0 \/ col >= cols \/ row < 0 \/ row >= rows

\* isWall(x, y)
isWall(x, y) ==
    LET col == Floor(RDiv(x, R(cellSize)))
        row == Floor(RDiv(y, R(cellSize)))
    IN  IF OutOfGrid(col, row) THEN TRUE ELSE grid[row][col] = WALL

\* The points asked about, half a pixel into a cell: in x, the first
\* column, the column of the entry and the columns of the exits; in y, the
\* two top rows and the bottom row; in both, half a pixel before 0 and the
\* far edge itself.
WallXs ==
    {Norm(-1, 2), R(width)}
        \cup {Norm(2 * c * cellSize + 1, 2) :
                 c \in {0, cols \div 2}
                          \cup {exitColumns[n] : n \in DOMAIN exitColumns}}

WallYs ==
    {Norm(-1, 2), R(height)}
        \cup {Norm(2 * r * cellSize + 1, 2) : r \in {0, 1, rows - 1}}

call_isWall(x, y) ==
    /\ phase = "idle"
    /\ grid # <<>>
    /\ query = NULL
    /\ query' = [fn |-> "isWall", args |-> <<x, y>>, result |-> isWall(x, y)]
    /\ UNCHANGED <<grid, level, cols, rows, cellSize, width, height, rng,
                   exitZones, wallRects, entryX, entryY, exitColumns, phase,
                   stack>>
    /\ UNCHANGED controlVars

Init == ControlsInit /\ MazeConstructed

Next ==
    \/ init
    \/ \E o \in PermissionOutcomes : requestPermission(o)
    \/ \E g \in SampleAngles, b \in SampleAngles :
         _handleDeviceOrientation(g, b)
    \/ \E k \in DirectionKeys : _handleKeyDown(k)
    \/ \E k \in DirectionKeys : _handleKeyUp(k)
    \/ \E p \in TouchPoints : _handleTouchStart(p)
    \/ \E p \in TouchPoints : _handleTouchMove(p)
    \/ _handleTouchEnd
    \/ \E l \in BOOLEAN : _handleResize(l)
    \/ update
    \/ calibrate
    \/ reset
    \/ destroy

Spec == Init /\ [][Next]_vars

(***************************************************************************)
(* The game loop: a session on a desktop or on a phone with a sensor, in   *)
(* which update() goes on being called every frame.                        *)
(***************************************************************************)
DesktopPlatform ==
    [orientationEvent |-> FALSE, secureContext |-> TRUE,
     permissionApi |-> FALSE, sensor |-> FALSE, ontouchstart |-> FALSE,
     touchArea |-> TRUE]

PhonePlatform ==
    [orientationEvent |-> TRUE, secureContext |-> TRUE,
     permissionApi |-> FALSE, sensor |-> TRUE, ontouchstart |-> TRUE,
     touchArea |-> TRUE]

FramePlatforms == {DesktopPlatform, PhonePlatform}

FramesInit ==
    /\ \E p \in FramePlatforms, s \in SmoothingFactors :
           Constructed(p, s, FALSE)
    /\ MazeConstructed

FramesNext ==
    \/ init
    \/ \E o \in PermissionOutcomes : requestPermission(o)
    \/ \E g \in SampleAngles, b \in SampleAngles :
         _handleDeviceOrientation(g, b)
    \/ \E k \in DirectionKeys : _handleKeyDown(k)
    \/ \E k \in DirectionKeys : _handleKeyUp(k)
    \/ \E p \in TouchPoints : _handleTouchStart(p)
    \/ \E p \in TouchPoints : _handleTouchMove(p)
    \/ _handleTouchEnd
    \/ \E l \in BOOLEAN : _handleResize(l)
    \/ frame
    \/ calibrate
    \/ reset
    \/ destroy

\* frame can run and changes something: ENABLED <<frame>>_vars
FrameEnabled ==
    /\ UpdateRaw # ZeroVec => steps < MaxSteps
    /\ \/ UpdateRaw # ZeroVec
       \/ lastCall # "update"
       \/ ret # "none"
       \/ before # Fields
       \/ sample # NULL
       \/ activeMethod # UpdateMethod(activeMethod)
       \/ rawGravity # UpdateRaw
       \/ gravity # Vec(Smooth(gravity.x, UpdateRaw.x),
                        Smooth(gravity.y, UpdateRaw.y))

\* The game loop calls update() on every animation frame: frame is not
\* left enabled for ever without running.  This is WF_vars(frame), with
\* its enabling condition written out.
FrameFairness == []<>(~FrameEnabled) \/ []<><<frame>>_vars

SpecFrames == FramesInit /\ [][FramesNext]_vars /\ FrameFairness

(***************************************************************************)
(* A session that starts when init() has returned, on a desktop or on a    *)
(* phone with a sensor: MaxSteps operations follow.                        *)
(***************************************************************************)
\* the state the first call of init() leaves
Initialised(p, s, landscape) ==
    /\ gravity = ZeroVec
    /\ rawGravity = ZeroVec
    /\ hasTouch = p.ontouchstart
    /\ platform = p
    /\ hasDeviceOrientation = _checkDeviceOrientationSupport
    /\ activeMethod = InitialMethod(_checkDeviceOrientationSupport)
    /\ listeners = InitListeners(_checkDeviceOrientationSupport)
    /\ calibration = ZeroVec
    /\ initialized = TRUE
    /\ keys = NoKeys
    /\ touch = [active |-> FALSE, startX |-> 0, startY |-> 0,
                currentX |-> 0, currentY |-> 0]
    /\ isLandscape = landscape
    /\ smoothing = s
    /\ lastCall = "init"
    /\ ret = activeMethod
    /\ before = [activeMethod |-> KEYBOARD, rawGravity |-> ZeroVec,
                 gravity |-> ZeroVec, calibration |-> ZeroVec,
                 listeners |-> {}]
    /\ steps = 0
    /\ sample = NULL

\* the raw vector does not depend on the smoothing factor: one is explored
PlayInit ==
    /\ \E p \in FramePlatforms : Initialised(p, <<1, 2>>, FALSE)
    /\ MazeConstructed

\* Orientation samples of a session in play: an angle inside the dead zone,
\* one between the dead zone and the maximum tilt, and one beyond it.
PlayAngles == {3, 30, 90}

\* Touch points of a session in play, on the same line: drags of length
\* 20 (within the joystick radius), 80 and 100 (beyond it), both ways.
PlayTouchPoints == TouchPoints \cup {<<112, 116>>}

PlayNext ==
    \/ init
    \/ \E o \in PermissionOutcomes : requestPermission(o)
    \/ \E g \in PlayAngles, b \in PlayAngles :
         _handleDeviceOrientation(<<g>>, <<b>>)
    \/ \E k \in DirectionKeys : _handleKeyDown(k)
    \/ \E k \in DirectionKeys : _handleKeyUp(k)
    \/ \E p \in PlayTouchPoints : _handleTouchStart(p)
    \/ \E p \in PlayTouchPoints : _handleTouchMove(p)
    \/ _handleTouchEnd
    \/ \E l \in BOOLEAN : _handleResize(l)
    \/ update
    \/ calibrate
    \/ reset
    \/ destroy

SpecPlay == PlayInit /\ [][PlayNext]_vars

(***************************************************************************)
(* A maze generator that runs init once, beside controls that were         *)
(* constructed on a desktop and are left alone                             *)
(***************************************************************************)
MazeInit == Constructed(DesktopPlatform, <<1, 2>>, FALSE) /\ MazeConstructed

MazeNext ==
    \/ \E lv \in Levels, canvas \in Canvases, k \in Clocks :
         MazeGenerator_init(lv, canvas[1], canvas[2], k)
    \/ _carve
    \/ _createEntryAndExits
    \/ _buildExitZones
    \/ _buildWallRects
    \/ \E x \in PixelXs : call_getExitZoneForX(x)
    \/ \E x \in WallXs, y \in WallYs : call_isWall(x, y)

SpecMaze == MazeInit /\ [][MazeNext]_vars

(***************************************************************************)
(* A generator that runs init level after level, on the phone canvas       *)
(***************************************************************************)
\* the levels played: a small maze (11 x 13) and a larger one (15 x 15)
PlayedLevels == {1, 4}

LevelsNext ==
    \/ \E lv \in PlayedLevels : MazeGenerator_init(lv, 320, 480, 0)
    \/ \E lv \in PlayedLevels : MazeGenerator_initAgain(lv, 320, 480, 1)
    \/ _carve
    \/ _createEntryAndExits
    \/ _buildExitZones
    \/ _buildWallRects
    \/ \E x \in WallXs, y \in WallYs : call_isWall(x, y)

SpecLevels == MazeInit /\ [][LevelsNext]_vars

(***************************************************************************)
(* A SeededRandom with an injected seed, drawn from MaxSteps times         *)
(***************************************************************************)
\* The seeds injected: a clock reading, the ends of the 31-bit range, the
\* seed whose successor in whole numbers is 2^31 - 1, the last seed whose
\* product is below 2^53, and small seeds.
Seeds ==
    {Now(0), Big(0), Big(1), Big(42), Big(8162278), Big(230538014),
     Big(2147483646), Big(2147483647)}

\* the (min, max) of nextInt: those of shuffle on 4 directions, and others
IntRanges == {<<0, 2>>, <<0, 3>>, <<0, 4>>, <<1, 7>>, <<-3, 3>>}

\* rng.next(): returns this.seed / 0x7fffffff
SeededRandom_next ==
    /\ steps < MaxSteps
    /\ steps' = steps + 1
    /\ rng' = next(rng)
    /\ query' = [fn |-> "next", args |-> <<>>, seed |-> rng,
                 result |-> Norm(Low31(next(rng)), 2147483647)]
    /\ UNCHANGED <<grid, level, cols, rows, cellSize, width, height,
                   exitZones, wallRects, entryX, entryY, exitColumns, phase,
                   stack>>
    /\ UNCHANGED <<gravity, rawGravity, activeMethod, hasDeviceOrientation,
                   hasTouch, calibration, initialized, keys, touch,
                   isLandscape, platform, listeners, smoothing, lastCall,
                   ret, before, sample>>

\* rng.nextInt(min, max)
SeededRandom_nextInt(min, max) ==
    /\ steps < MaxSteps
    /\ steps' = steps + 1
    /\ rng' = next(rng)
    /\ query' = [fn |-> "nextInt", args |-> <<min, max>>, seed |-> rng,
                 result |-> nextInt(rng, min, max)]
    /\ UNCHANGED <<grid, level, cols, rows, cellSize, width, height,
                   exitZones, wallRects, entryX, entryY, exitColumns, phase,
                   stack>>
    /\ UNCHANGED <<gravity, rawGravity, activeMethod, hasDeviceOrientation,
                   hasTouch, calibration, initialized, keys, touch,
                   isLandscape, platform, listeners, smoothing, lastCall,
                   ret, before, sample>>

RandomInit ==
    /\ Constructed(DesktopPlatform, <<1, 2>>, FALSE)
    /\ \E seed \in Seeds : MazeConstructedWith(seed)

\* the arrays shuffled: the carve directions, an empty array, one element,
\* equal elements, and five elements
Arrays ==
    {DIRECTIONS, <<>>, <<[v |-> 1]>>, <<[v |-> 1], [v |-> 1], [v |-> 2]>>,
     [n \in 1..5 |-> [v |-> n]]}

\* rng.shuffle(array): args holds the caller's array when the call has
\* returned; shuffle works on the copy [...array]
SeededRandom_shuffle(array) ==
    /\ steps < MaxSteps
    /\ steps' = steps + 1
    /\ rng' = shuffle(rng, array).seed
    /\ query' = [fn |-> "shuffle", args |-> <<array>>, seed |-> rng,
                 result |-> shuffle(rng, array).result]
    /\ UNCHANGED <<grid, level, cols, rows, cellSize, width, height,
                   exitZones, wallRects, entryX, entryY, exitColumns, phase,
                   stack>>
    /\ UNCHANGED <<gravity, rawGravity, activeMethod, hasDeviceOrientation,
                   hasTouch, calibration, initialized, keys, touch,
                   isLandscape, platform, listeners, smoothing, lastCall,
                   ret, before, sample>>

RandomNext ==
    \/ SeededRandom_next
    \/ \E r \in IntRanges : SeededRandom_nextInt(r[1], r[2])
    \/ \E array \in Arrays : SeededRandom_shuffle(array)

SpecRandom == RandomInit /\ [][RandomNext]_vars

(***************************************************************************)
(* Properties of the maze                                                  *)
(***************************************************************************)
\* init has returned
Generated == phase = "idle" /\ grid # <<>>

Cells == (0..(cols - 1)) \X (0..(rows - 1))
CellsOf(type) == {c \in Cells : grid[c[2]][c[1]] = type}

Adjacent(c) ==
    {<<c[1], c[2] - 1>>, <<c[1] + 1, c[2]>>, <<c[1], c[2] + 1>>,
     <<c[1] - 1, c[2]>>}

\* the cells a 4-neighbour flood fill over non-wall cells reaches
RECURSIVE Flood(_, _)
Flood(seen, frontier) ==
    IF frontier = {} THEN seen
    ELSE Flood(seen \cup frontier,
               {n \in UNION {Adjacent(c) : c \in frontier} :
                   n \in Cells /\ grid[n[2]][n[1]] # WALL}
                 \ (seen \cup frontier))

EntryCells == {c \in CellsOf(ENTRY) : c[2] = 0}
ExitCells == {c \in CellsOf(EXIT) : c[2] = rows - 1}

\* C1: maze connectivity.  For every level 1..10, every canvas and every
\* clock reading that seeds the draws, once init has returned the grid has
\* an Entry cell in row 0 and Exit cells in the last row, and the flood
\* fill from the Entry cell over non-wall cells reaches every Exit cell.
C1_Connectivity ==
    Generated =>
        /\ EntryCells # {}
        /\ ExitCells # {}
        /\ ExitCells \subseteq Flood({}, EntryCells)

\* a maze of the last level whose middle exit is not under its target
\* column, and whose exits are reached
C1_Witness ==
    /\ Generated
    /\ level = MaxLevel
    /\ exitColumns[3] # TargetCol(exitPositions[3])
    /\ \A n \in 1..5 : <<exitColumns[n], rows - 1>> \in Flood({}, EntryCells)

(***************************************************************************)
(* Properties of the controls.  lastCall names the operation that produced *)
(* the state and before holds the fields that operation found.             *)
(***************************************************************************)
Right == Vec(tiltSensitivity, Zero)

\* C2: keyboard priority.  After an update() that runs while a directional
\* key is held, the active source is Keyboard and the raw vector is the one
\* derived from the held keys, whatever the source and the raw vector were
\* before (update() leaves the keys as it found them).
C2_KeyboardPriority ==
    (lastCall = "update" /\ keyboardActive) =>
        (activeMethod = KEYBOARD /\ rawGravity = KeyboardRaw)

\* update() has taken the source from Tilt, whose raw vector was not zero
\* and was not the keyboard's.
C2_Witness ==
    /\ lastCall = "update"
    /\ keyboardActive
    /\ before.activeMethod = TILT
    /\ before.rawGravity # ZeroVec
    /\ before.rawGravity # rawGravity
    /\ activeMethod = KEYBOARD

\* C3 (as claimed): once Tilt is active, no key, touch or orientation event
\* and no update() takes the active source away from Tilt.
C3_TiltNeverLeaves ==
    (/\ before.activeMethod = TILT
     /\ lastCall \in {"keydown", "keyup", "touchstart", "touchmove",
                      "touchend", "deviceorientation",
                      "deviceorientation(null)", "update"})
        => activeMethod = TILT

\* C3 (amended): once Tilt is active it stays active, except that an
\* update() running while a directional key is held makes Keyboard active, a
\* denied or rejected requestPermission() installs the fallback, and the
\* first init() installs the initial source.
C3_TiltLeavesOnlyBy ==
    (before.activeMethod = TILT /\ activeMethod # TILT) =>
        \/ lastCall = "update" /\ keyboardActive /\ activeMethod = KEYBOARD
        \/ lastCall = "requestPermission" /\ ret = "false"
        \/ lastCall = "init" /\ initialized /\ ret = activeMethod

\* Tilt, with a raw vector that is not zero, has survived an update() that
\* ran with no key held.
C3_Witness ==
    /\ lastCall = "update"
    /\ ~keyboardActive
    /\ before.activeMethod = TILT
    /\ activeMethod = TILT
    /\ rawGravity # ZeroVec

\* C4: touch never pre-empts Tilt.  A touch-start leaves Tilt active when
\* Tilt was active and makes Touch active otherwise; a touch-move that
\* finds Tilt active leaves the raw vector as it was.
C4_TouchNeverPreemptsTilt ==
    /\ lastCall = "touchstart" =>
         activeMethod = (IF before.activeMethod = TILT THEN TILT ELSE TOUCH)
    /\ (lastCall = "touchmove" /\ before.activeMethod = TILT) =>
         (rawGravity = before.rawGravity /\ activeMethod = TILT)

\* A touch-move of a drag in progress, away from its start point, has found
\* Tilt active.
C4_Witness ==
    /\ lastCall = "touchmove"
    /\ before.activeMethod = TILT
    /\ touch.active
    /\ touch.currentX # touch.startX
    /\ rawGravity # TouchToRaw(touch.currentX - touch.startX,
                              touch.currentY - touch.startY)

\* C5 (as claimed): no stale vector.  When update() commits gravity with
\* Keyboard active and no key held, or with Touch active and no drag in
\* progress, the raw vector it smooths towards is (0,0); stated for the
\* sessions whose init() has found orientation support, where Touch is
\* entered by a touch-start or by a refused requestPermission().
C5_NoStaleVector ==
    (/\ lastCall = "update"
     /\ hasDeviceOrientation
     /\ \/ activeMethod = KEYBOARD /\ ~keyboardActive
        \/ activeMethod = TOUCH /\ ~touch.active)
        => rawGravity = ZeroVec

\* C6 (as claimed): where the orientation capability is unusable (no API,
\* an insecure context, no sensor, or a permission just refused) the source
\* after init() or requestPermission() is never Tilt, and the source that
\* init() as the first call, or a refused requestPermission(), installs is
\* Touch if touch is available and Keyboard otherwise.
C6_Unusable ==
    \/ ~platform.orientationEvent
    \/ ~platform.secureContext
    \/ ~platform.sensor
    \/ lastCall = "requestPermission" /\ ret = "false"

C6_FallbackChain ==
    /\ (C6_Unusable /\ initialized
          /\ lastCall \in {"init", "requestPermission"})
         => activeMethod # TILT
    /\ (C6_Unusable
          /\ \/ lastCall = "init" /\ steps = 1
             \/ lastCall = "requestPermission" /\ ret = "false")
         => activeMethod = FallbackMethod

\* C7: the two-phase permission protocol.  On a platform that asks for a
\* grant, the orientation listener is attached by a granted
\* requestPermission() and by nothing else (not by init(), not by a refused
\* request); a granted request returns true and makes Tilt active; a denied
\* or rejected request returns false, leaves the listeners as they were and
\* installs Touch if touch is available and Keyboard otherwise.
C7_TwoPhasePermission ==
    platform.permissionApi =>
        /\ ("deviceorientation" \in listeners
              /\ "deviceorientation" \notin before.listeners)
             => (lastCall = "requestPermission" /\ ret = "true")
        /\ lastCall = "init" => "deviceorientation" \notin listeners
                                  \ before.listeners
        /\ (lastCall = "requestPermission" /\ ret = "true") =>
             ("deviceorientation" \in listeners /\ activeMethod = TILT)
        /\ (lastCall = "requestPermission" /\ ret = "false") =>
             (listeners = before.listeners /\ activeMethod = FallbackMethod)
        /\ lastCall = "requestPermission" => ret \in {"true", "false"}

\* On a platform that asks for a grant and has touch, init() has run and a
\* request has been refused: no orientation listener, Touch active.
C7_Witness ==
    /\ platform.permissionApi
    /\ hasTouch
    /\ initialized
    /\ lastCall = "requestPermission"
    /\ ret = "false"
    /\ "deviceorientation" \notin listeners
    /\ "keydown" \in listeners
    /\ activeMethod = TOUCH

\* C8: an orientation sample with a missing gamma or beta is dropped: the
\* active source, the raw vector, the smoothed gravity vector and the
\* calibration offset are what they were.
C8_InvalidSampleDropped ==
    lastCall = "deviceorientation(null)" =>
        /\ activeMethod = before.activeMethod
        /\ rawGravity = before.rawGravity
        /\ gravity = before.gravity
        /\ calibration = before.calibration

\* A sample with a missing angle has arrived while Touch was active with a
\* raw vector that is not zero.
C8_Witness ==
    /\ lastCall = "deviceorientation(null)"
    /\ activeMethod = TOUCH
    /\ rawGravity # ZeroVec

\* C9: update() is the single commit point.  The smoothed gravity vector
\* differs from what the last operation found only if that operation was
\* update() or reset().
C9_SingleCommitPoint ==
    gravity # before.gravity => lastCall \in {"update", "reset"}

\* An event handler has changed the raw vector and left a smoothed gravity
\* vector that is not zero as it was.
C9_Witness ==
    /\ lastCall \in {"touchmove", "touchend", "deviceorientation"}
    /\ rawGravity # before.rawGravity
    /\ gravity = before.gravity
    /\ gravity # ZeroVec

\* C10 (as claimed): smoothing convergence.  In a frame that smooths towards
\* the raw vector (1,0) from a gravity vector (x,0) with 0 <= x < 1, as every
\* frame of a run from (0,0) with the raw vector held at (1,0) does, x does
\* not decrease, does not exceed 1, and does not stay where it was.
C10_HeldFrame ==
    /\ lastCall = "update"
    /\ rawGravity = Right
    /\ before.gravity.y = Zero
    /\ RLe(Zero, before.gravity.x)
    /\ RLt(before.gravity.x, tiltSensitivity)

C10_SmoothingConvergence ==
    C10_HeldFrame =>
        /\ RLe(before.gravity.x, gravity.x)
        /\ RLe(gravity.x, tiltSensitivity)
        /\ RLt(before.gravity.x, gravity.x)

\* an axis of gravity is exactly 0 or at least the threshold in magnitude
AxisSettled(g) == g = Zero \/ RLe(driftThreshold, RAbs(g))

\* C11: no perpetual drift.  After every update() each axis of gravity is
\* exactly 0 or has magnitude >= 0.001; and if from some frame on the raw
\* vector the frames smooth towards stays (0,0), then after finitely many
\* frames gravity is exactly (0,0) and stays (0,0).
C11_NoPerpetualDrift ==
    /\ [](lastCall = "update" =>
            AxisSettled(gravity.x) /\ AxisSettled(gravity.y))
    /\ (<>[](UpdateRaw = ZeroVec) => <>[](gravity = ZeroVec))

\* a frame with the raw vector at rest, at which gravity, halved frame
\* after frame, fell below the threshold and became (0,0)
C11_Witness ==
    /\ lastCall = "update"
    /\ smoothing = <<1, 2>>
    /\ before.rawGravity = ZeroVec
    /\ rawGravity = ZeroVec
    /\ before.gravity # ZeroVec
    /\ RLt(RAbs(before.gravity.x), <<1, 500>>)
    /\ gravity = ZeroVec

\* 1 for a held key, 0 for a key that is up
Held(k) == IF keys[k] THEN 1 ELSE 0

\* C12: keyboard raw vector.  After an update() that runs with a non-empty
\* combination of held keys, raw.x = sensitivity * ([right] - [left]) and
\* raw.y = sensitivity * ([down] - [up]), whatever the raw vector was before;
\* opposing keys cancel on their axis.
C12_KeyboardRawVector ==
    (lastCall = "update" /\ \E k \in DirectionKeys : keys[k]) =>
        /\ rawGravity.x =
               RMul(tiltSensitivity, R(Held("right") - Held("left")))
        /\ rawGravity.y =
               RMul(tiltSensitivity, R(Held("down") - Held("up")))
        /\ (keys.left /\ keys.right) => rawGravity.x = Zero
        /\ (keys.up /\ keys.down) => rawGravity.y = Zero

\* an update() with all four keys held
C12_Witness ==
    /\ lastCall = "update"
    /\ \A k \in DirectionKeys : keys[k]
    /\ rawGravity = ZeroVec

\* every combination of held keys meets an update(), also one that finds
\* the raw vector of a tilt
C12_WitnessLeftRight ==
    /\ lastCall = "update"
    /\ keys = [NoKeys EXCEPT !.left = TRUE, !.right = TRUE]
    /\ before.rawGravity # ZeroVec
    /\ rawGravity = ZeroVec

InRange(a) == RLe(RAbs(R(a)), maxTiltAngle)

\* C13: calibrate() zeroes the current reading. When calibrate() is called
\* right after an orientation sample whose angles lie within the maximum
\* tilt, whatever the calibration offset was before, the next sample with
\* the same angles (and the same screen orientation) gives the raw
\* vector (0,0); also when that calibrate() is the second one at this tilt.
C13_CalibrateZeroesReading ==
    [][(/\ lastCall = "calibrate"
        /\ sample # NULL
        /\ InRange(sample[1]) /\ InRange(sample[2])
        /\ lastCall' = "deviceorientation"
        /\ sample' = sample
        /\ isLandscape' = isLandscape)
       => rawGravity' = ZeroVec]_vars

\* C14: reset() returns the whole per-source input state to its initial
\* value: after it gravity and the raw vector are (0,0), the four key flags
\* are false, no touch is active and the tilt calibration offset is (0,0).
C14_ResetRestoresInitial ==
    lastCall = "reset" =>
        /\ gravity = ZeroVec
        /\ rawGravity = ZeroVec
        /\ keys = NoKeys
        /\ ~touch.active
        /\ calibration = ZeroVec

\* C15: after init(level, canvasWidth, canvasHeight), for every level from
\* 0 on and every canvas, cols = 11 + 2*floor(level/2) and
\* rows = 13 + 2*floor(level/3), both are odd, and the grid has exactly
\* rows rows of cols cells each.
C15_GridDimensions ==
    Generated =>
        /\ cols = 11 + 2 * (level \div 2)
        /\ rows = 13 + 2 * (level \div 3)
        /\ cols % 2 = 1
        /\ rows % 2 = 1
        /\ DOMAIN grid = 0..(rows - 1)
        /\ \A y \in DOMAIN grid : DOMAIN grid[y] = 0..(cols - 1)

\* a maze of level 9 on the phone canvas: 19 columns and 19 rows
C15_Witness ==
    /\ Generated
    /\ level = 9
    /\ cols = 19
    /\ rows = 19
    /\ \A y \in 0..18 : DOMAIN grid[y] = 0..18
    /\ width = 19 * 20

\* C16: the exit zones tile the width of the maze.  There are exactly 5
\* zones; zone 0 starts at x = 0, zone i+1 starts exactly where zone i
\* ends, zone 4 ends at width; the widths add up to width = cols * cellSize
\* and every zone lies at y = height.
C16_ZonesTileWidth ==
    Generated =>
        /\ Len(exitZones) = 5
        /\ exitZones[1].x = Zero
        /\ \A n \in 1..4 :
               RAdd(exitZones[n].x, exitZones[n].width) = exitZones[n + 1].x
        /\ RAdd(exitZones[5].x, exitZones[5].width) = R(width)
        /\ RAdd(RAdd(RAdd(RAdd(exitZones[1].width, exitZones[2].width),
                          exitZones[3].width), exitZones[4].width),
                exitZones[5].width) = R(width)
        /\ width = cols * cellSize
        /\ \A n \in 1..5 : exitZones[n].y = height /\ height = rows * cellSize

\* a maze whose width is no multiple of 5: the zones start between pixels
C16_Witness ==
    /\ Generated
    /\ width = 671
    /\ exitZones[4].x = <<2013, 5>>
    /\ exitZones[5].width = <<671, 5>>

\* the last query was a call of method f
Asked(f) == query # NULL /\ query.fn = f

\* x lies in the n-th fifth of the width, both edges included
InFifth(x, n) == RLe(Norm((n - 1) * width, 5), x) /\ RLe(x, Norm(n * width, 5))

\* getExitZoneForX(x) returns the first zone from the left whose span holds
\* x, none when x < 0 or x > width, and the scores of the zones from the
\* left are 500, 100, 1000, 0, 250
C17_Lookup ==
    Asked("getExitZoneForX") =>
        LET x == query.args[1]
            hits == {n \in 1..5 : InFifth(x, n)}
        IN  /\ hits = {} => query.result = NULL
            /\ \A n \in hits :
                   (\A m \in hits : n <= m) => query.result = exitZones[n]
            /\ (RLt(x, Zero) \/ RLt(R(width), x)) => query.result = NULL
            /\ [n \in 1..5 |-> exitZones[n].score] = <<500, 100, 1000, 0, 250>>

\* C17 as stated: getExitZoneForX(x) returns the first zone from the left
\* whose span holds x and none outside 0..width; the scores from the left
\* are 500, 100, 1000, 0, 250, so every x of the third zone's span,
\* 2*width/5 <= x <= 3*width/5, gets the zone with score 1000.
C17_ThirdZoneClosed ==
    /\ C17_Lookup
    /\ (Asked("getExitZoneForX") /\ InFifth(query.args[1], 3)) =>
           (query.result # NULL /\ query.result.score = 1000)

\* C17 amended: as above, but the zone with score 1000 is returned for
\* 2*width/5 < x <= 3*width/5; the left edge x = 2*width/5 also lies in the
\* second zone's span, which comes first, and gets score 100.
C17_ThirdZoneLeftOpen ==
    /\ C17_Lookup
    /\ (/\ Asked("getExitZoneForX")
        /\ InFifth(query.args[1], 3)
        /\ query.args[1] # Norm(2 * width, 5)) =>
           (query.result # NULL /\ query.result.score = 1000)
    /\ (Asked("getExitZoneForX") /\ query.args[1] = Norm(2 * width, 5)) =>
           (query.result # NULL /\ query.result.score = 100)

\* the right edge of the third zone was asked about and got score 1000
C17_Witness ==
    /\ Asked("getExitZoneForX")
    /\ query.args[1] = Norm(3 * width, 5)
    /\ query.result # NULL
    /\ query.result.score = 1000
    /\ query.result.x = Norm(2 * width, 5)

\* pixel x lies in the span of grid column c
InColumn(x, c) == RLe(R(c * cellSize), x) /\ RLt(x, R((c + 1) * cellSize))

\* C18: each exit opening feeds its own zone.  After init of a level in
\* 1..10, for every i in 0..4 the column of zone i is the i-th recorded
\* exit column, the cell of the last row in that column is Exit, and
\* getExitZoneForX maps every pixel x of that column's span
\* [column * cellSize, (column + 1) * cellSize) to zone i.
C18_OpeningFeedsOwnZone ==
    (Generated /\ level \in 1..MaxLevel) =>
        /\ Len(exitColumns) = 5
        /\ \A n \in 1..5 :
               /\ exitZones[n].column = exitColumns[n]
               /\ grid[rows - 1][exitZones[n].column] = EXIT
               /\ (Asked("getExitZoneForX")
                      /\ InColumn(query.args[1], exitZones[n].column)) =>
                      query.result = exitZones[n]

\* pixel y lies in the span of grid row r
InRow(y, r) == RLe(R(r * cellSize), y) /\ RLt(y, R((r + 1) * cellSize))

\* C19: boundary containment.  After init, isWall(x, y) returns true for
\* every point with x < 0 or y < 0 or x >= width or y >= height; for a
\* point inside the grid it returns true exactly when the cell that holds
\* the point is Wall (false for Path, Entry and Exit cells).
C19_BoundaryContainment ==
    Asked("isWall") =>
        LET x == query.args[1]
            y == query.args[2]
        IN  IF \/ RLt(x, Zero) \/ RLt(y, Zero)
               \/ RLe(R(width), x) \/ RLe(R(height), y)
            THEN query.result = TRUE
            ELSE \E c \in Cells :
                    /\ InColumn(x, c[1])
                    /\ InRow(y, c[2])
                    /\ query.result = (grid[c[2]][c[1]] = WALL)

\* the right edge x = width was asked about beside the row of the exits
C19_Witness ==
    /\ Asked("isWall")
    /\ query.args[1] = R(width)
    /\ InRow(query.args[2], rows - 1)
    /\ query.result = TRUE

\* an exit cell was asked about and is no wall
C19_WitnessExit ==
    /\ Asked("isWall")
    /\ InColumn(query.args[1], exitColumns[3])
    /\ InRow(query.args[2], rows - 1)
    /\ grid[rows - 1][exitColumns[3]] = EXIT
    /\ query.result = FALSE

\* C20: the range of SeededRandom.  From every seed of the 31-bit range
\* (each is reached by seed' = (seed * 1103515245 + 12345) mod 2^31),
\* next() returns a value in [0,1), never exactly 1, and nextInt(min, max)
\* returns an integer r with min <= r < max, never max.
C20_RandomRange ==
    /\ Asked("next") =>
           (RLe(Zero, query.result) /\ RLt(query.result, R(1)))
    /\ Asked("nextInt") =>
           (query.args[1] <= query.result /\ query.result < query.args[2])

\* next() was called on the seed whose successor in whole numbers would be
\* 2^31 - 1
C20_Witness ==
    /\ Asked("next")
    /\ query.seed = Big(230538014)
    /\ RLt(query.result, R(1))

\* nextInt(0, 4) was called on the seed 2^31 - 1
C20_WitnessNextInt ==
    /\ Asked("nextInt")
    /\ query.seed = Big(2147483647)
    /\ query.args = <<0, 4>>
    /\ query.result \in 0..3

\* how often element e occurs in the array a
Count(a, e) == Cardinality({i \in DOMAIN a : a[i] = e})

Square(v) == RAdd(RMul(v.x, v.x), RMul(v.y, v.y))

\* the drag of the touch in progress, from its start to its current point
DragX == touch.currentX - touch.startX
DragY == touch.currentY - touch.startY

\* C22: touch clamp.  With Tilt not active and a drag in progress, a
\* touch-move farther from the start than the joystick radius sets a raw
\* vector of magnitude exactly the sensitivity, in the direction of the
\* drag; a touch-move within the radius sets
\* raw = sensitivity * (dx, dy) / radius; for every drag the raw magnitude
\* is at most the sensitivity.
C22_TouchClamp ==
    (lastCall = "touchmove" /\ touch.active /\ activeMethod # TILT) =>
        /\ IF RLt(RMul(joystickRadius, joystickRadius),
                  R(DragX * DragX + DragY * DragY))
           THEN /\ Square(rawGravity) = RMul(tiltSensitivity, tiltSensitivity)
                /\ RMul(rawGravity.x, R(DragY)) = RMul(rawGravity.y, R(DragX))
                /\ RLe(Zero, RMul(rawGravity.x, R(DragX)))
                /\ RLe(Zero, RMul(rawGravity.y, R(DragY)))
           ELSE rawGravity =
                    Vec(RDiv(RMul(tiltSensitivity, R(DragX)), joystickRadius),
                        RDiv(RMul(tiltSensitivity, R(DragY)), joystickRadius))
        /\ RLe(Square(rawGravity), RMul(tiltSensitivity, tiltSensitivity))

\* a drag of length 80 up and to the left was clamped to the radius
C22_Witness ==
    /\ lastCall = "touchmove"
    /\ touch.active
    /\ activeMethod = TOUCH
    /\ DragX = -48
    /\ DragY = -64
    /\ rawGravity = Vec(<<-3, 5>>, <<-4, 5>>)

\* a drag of length 20, within the radius
C22_WitnessWithin ==
    /\ lastCall = "touchmove"
    /\ touch.active
    /\ activeMethod = TOUCH
    /\ DragX = 12
    /\ DragY = 16
    /\ rawGravity = Vec(<<6, 25>>, <<8, 25>>)

\* the raw axis the claim gives for the angle t (calibration subtracted):
\* 0 inside the dead zone, the sensitivity beyond the maximum angle on
\* either side, in proportion between
MappedAxis(t) ==
    IF RLt(RAbs(t), deadZone) THEN Zero
    ELSE IF RLt(maxTiltAngle, t) THEN tiltSensitivity
    ELSE IF RLt(t, RNeg(maxTiltAngle)) THEN RNeg(tiltSensitivity)
    ELSE RDiv(RMul(tiltSensitivity, t), maxTiltAngle)

\* C23: tilt sample mapping.  For every valid sample (gamma, beta), with
\* (tx, ty) = (gamma, beta) in portrait and (beta, -gamma) in landscape,
\* minus the calibration offset, each raw axis after the handler is
\* sensitivity * clamp(d, -maxAngle, maxAngle) / maxAngle, d being 0 if
\* |t| < deadZone and t otherwise; the handler makes Tilt the active source
\* whatever it was before, Keyboard with keys held included.
C23_TiltSampleMapping ==
    (lastCall = "deviceorientation" /\ sample # NULL) =>
        LET tx == IF isLandscape THEN sample[2] ELSE sample[1]
            ty == IF isLandscape THEN -sample[1] ELSE sample[2]
        IN  /\ rawGravity.x = MappedAxis(RSub(R(tx), calibration.x))
            /\ rawGravity.y = MappedAxis(RSub(R(ty), calibration.y))
            /\ activeMethod = TILT

\* a sample in landscape while Keyboard was active with a key held: gamma
\* inside the range, beta beyond it
C23_Witness ==
    /\ lastCall = "deviceorientation"
    /\ sample = <<30, 90>>
    /\ isLandscape
    /\ before.activeMethod = KEYBOARD
    /\ \E k \in DirectionKeys : keys[k]
    /\ rawGravity = Vec(R(1), <<-2, 3>>)
    /\ activeMethod = TILT

\* a sample after a calibration: the angle 3 lies 27 degrees below the offset
C23_WitnessCalibrated ==
    /\ lastCall = "deviceorientation"
    /\ sample = <<3, 3>>
    /\ calibration.x = R(30)
    /\ rawGravity.x = <<-3, 5>>

\* _generateMaze has returned and the entry and the exits are not yet made
Carved == phase = "_createEntryAndExits"

OddCells == {c \in Cells : c[1] % 2 = 1 /\ c[2] % 2 = 1}
BoundaryCells ==
    {c \in Cells : c[1] \in {0, cols - 1} \/ c[2] \in {0, rows - 1}}
Connectors == CellsOf(PATH) \ OddCells

\* C24: perfect maze after carving.  When _generateMaze has finished, every
\* cell with odd x and odd y is Path, every cell of the outer boundary is
\* Wall, every other Path cell lies between two odd cells that are
\* neighbours in a row or in a column, and the paths are connected and
\* free of cycles: the connectors are one fewer than the odd cells.
C24_PerfectMaze ==
    Carved =>
        /\ \A c \in Cells : grid[c[2]][c[1]] \in {WALL, PATH}
        /\ OddCells \subseteq CellsOf(PATH)
        /\ \A c \in BoundaryCells : grid[c[2]][c[1]] = WALL
        /\ \A c \in Connectors :
               \/ {<<c[1] - 1, c[2]>>, <<c[1] + 1, c[2]>>} \subseteq OddCells
               \/ {<<c[1], c[2] - 1>>, <<c[1], c[2] + 1>>} \subseteq OddCells
        /\ Cardinality(Connectors) = Cardinality(OddCells) - 1
        /\ Flood({}, {<<1, 1>>}) = CellsOf(PATH)

\* a carved maze of the last level: 90 odd cells joined by 89 connectors
C24_Witness ==
    /\ Carved
    /\ level = MaxLevel
    /\ Cardinality(OddCells) = 90
    /\ Cardinality(Connectors) = 89
    /\ grid[0][cols \div 2] = WALL

\* the point (x, y) lies inside the rectangle rect
InRect(x, y, rect) ==
    /\ RLe(R(rect.x), x) /\ RLt(x, R(rect.x + rect.width))
    /\ RLe(R(rect.y), y) /\ RLt(y, R(rect.y + rect.height))

\* C25: wallRects agree with the grid after any sequence of init calls.
\* The list holds exactly one rectangle of cellSize by cellSize at
\* (col * cellSize, row * cellSize) for each Wall cell of the current grid
\* and nothing of an earlier level, so for every point inside the grid
\* isWall(x, y) is true exactly when the point lies inside some rectangle.
C25_WallRectsAgree ==
    Generated =>
        /\ Len(wallRects) = Cardinality(CellsOf(WALL))
        /\ \A c \in CellsOf(WALL) : \E n \in DOMAIN wallRects :
               /\ wallRects[n].x = c[1] * cellSize
               /\ wallRects[n].y = c[2] * cellSize
        /\ \A n \in DOMAIN wallRects :
               /\ wallRects[n].width = cellSize
               /\ wallRects[n].height = cellSize
        /\ (/\ Asked("isWall")
            /\ RLe(Zero, query.args[1]) /\ RLt(query.args[1], R(width))
            /\ RLe(Zero, query.args[2]) /\ RLt(query.args[2], R(height))) =>
               (query.result <=>
                  \E n \in DOMAIN wallRects :
                      InRect(query.args[1], query.args[2], wallRects[n]))

\* the small level was built after two earlier levels and a point of its
\* entry cell is in no rectangle
C25_Witness ==
    /\ Generated
    /\ steps = 2
    /\ level = 1
    /\ Asked("isWall")
    /\ InColumn(query.args[1], cols \div 2)
    /\ InRow(query.args[2], 0)
    /\ query.result = FALSE

\* while the small level is being built after the larger one, the list
\* still holds the rectangles of the larger one
C25_WitnessStale ==
    /\ phase = "_carve"
    /\ level = 1
    /\ wallRects # <<>>
    /\ wallRects[1].width # cellSize

\* C26: sealed boundary.  After init, for the levels 1..10, the grid has
\* exactly one Entry cell, in row 0 and column floor(cols / 2), and exactly
\* five Exit cells, in five distinct and strictly increasing columns of the
\* last row; every other cell of the outer boundary is Wall; and the step
\* that connects the exits carves no cell of the boundary.
C26_SealedBoundary ==
    /\ (Generated /\ level >= 1) =>
           /\ CellsOf(ENTRY) = {<<cols \div 2, 0>>}
           /\ Len(exitColumns) = 5
           /\ \A n \in 1..4 : exitColumns[n] < exitColumns[n + 1]
           /\ CellsOf(EXIT) = {<<exitColumns[n], rows - 1>> : n \in 1..5}
           /\ \A c \in BoundaryCells :
                  grid[c[2]][c[1]] \in {ENTRY, EXIT, WALL}
    /\ (Carved /\ level >= 1) =>
           LET opened == OpenExits(OpenEntry(grid), 1)
               connected == ConnectExits(opened.grid, opened.exitColumns, 1)
           IN  \A c \in BoundaryCells :
                   connected[c[2]][c[1]] = opened.grid[c[2]][c[1]]

\* a maze of 13 columns whose third exit is in the even column 6, under
\* its target, a cell that the carving opened between two odd cells
C26_Witness ==
    /\ Generated
    /\ level = 2
    /\ exitColumns[3] = 6
    /\ grid[rows - 1][6] = EXIT
    /\ grid[rows - 1][5] = WALL

\* the axis a is within the configured sensitivity
Bounded(a) == RLe(RAbs(a), tiltSensitivity)

\* C27: bounded vectors.  In every reachable state, under any interleaving
\* of key, touch, orientation, calibrate, reset and update() events, each
\* axis of the raw vector has a magnitude of at most the configured
\* sensitivity, and so has each axis of the smoothed gravity vector, the
\* smoothing factor being in (0,1].
C27_BoundedVectors ==
    /\ Bounded(rawGravity.x)
    /\ Bounded(rawGravity.y)
    /\ Bounded(gravity.x)
    /\ Bounded(gravity.y)

\* update() has smoothed towards a raw vector at the bound on both axes,
\* after a gravity that pointed elsewhere, and gravity is at the bound
C27_Witness ==
    /\ lastCall = "update"
    /\ RAbs(rawGravity.x) = tiltSensitivity
    /\ RAbs(rawGravity.y) = tiltSensitivity
    /\ before.gravity.x # Zero
    /\ before.gravity # gravity
    /\ RAbs(gravity.x) = tiltSensitivity
    /\ RAbs(gravity.y) = tiltSensitivity

\* a sample tilted beyond the maximum angle, read after a calibration,
\* leaves the raw vector at the bound
C27_WitnessTilt ==
    /\ lastCall = "deviceorientation"
    /\ calibration # ZeroVec
    /\ RAbs(rawGravity.x) = tiltSensitivity

\* the calls of the host; every other operation is an input event
HostCalls ==
    {"init", "requestPermission", "update", "calibrate", "reset", "destroy"}

\* the step is the operation op
Step(op) == steps' = steps + 1 /\ lastCall' = op

\* the fields of the manager, without the record of the last operation
ManagerFields ==
    <<gravity, rawGravity, activeMethod, hasDeviceOrientation, hasTouch,
      calibration, initialized, keys, touch, isLandscape, platform,
      listeners, smoothing>>

C28_WitnessChanged ==
    /\ lastCall = "init"
    /\ before.listeners # {}
    /\ hasDeviceOrientation /\ ~platform.permissionApi
    /\ ret = KEYBOARD
    /\ activeMethod = KEYBOARD
    /\ rawGravity # ZeroVec
    /\ before.rawGravity = rawGravity

====
